---------------------------- MODULE Spec2Model ----------------------------
(***************************************************************************)
(* Meeting Memory: the Whisper transcription runner                        *)
(* (web/python/transcribe_with_whisper.py).                                *)
(*                                                                         *)
(* One run of main() after argument parsing: the file check, the import of *)
(* whisper, the audio loader with the duration guard, the model loader,    *)
(* the transcribe call with the quality gate, and the exception handler.   *)
(* The external collaborators (the file system, the import, load_audio,    *)
(* load_model, transcribe) are inputs: each returns or raises an           *)
(* Exception, chosen when the call is made.                                *)
(*                                                                         *)
(* Numbers.  The quality metrics are Python floats.  A float is kept as an *)
(* integer count of units of 1/Unit, and every float operation (a literal, *)
(* float(str), +, /) rounds its exact result to the nearest representable  *)
(* value, ties to even, as IEEE-754 does; the model keeps MantissaBits     *)
(* significant bits where a double keeps 53.  Strings are sequences of     *)
(* one-character strings, so that strip(), lower() and `in` are computed.  *)
(* The duration is the exact quotient len(audio) / SAMPLE_RATE, kept as    *)
(* the pair of its numerator and denominator: for every sample count an    *)
(* array can hold the double quotient compares with 3600 as the exact one  *)
(* does.                                                                   *)
(***************************************************************************)
EXTENDS Integers, Sequences, FiniteSets, TLC

VARIABLES
    pc,           \* position in main(): "check_file", "import", "load_audio",
                  \* "load_model", "transcribe", "except", "exited"
    file_exists,  \* os.path.isfile(input_path)
    args_model,   \* args.model
    out,          \* the JSON objects written to stdout, in order
    exit_status,  \* <<>> while running, <<code>> once the process has exited
    calls,        \* the external calls made so far, in order
    audio,        \* <<>> or <<len(audio)>>
    result,       \* <<>> or <<the value model.transcribe returned>>
    exc           \* <<>> or <<str(exc)>> of the exception the handler caught

vars == <<pc, file_exists, args_model, out, exit_status, calls, audio, result, exc>>

---------------------------------------------------------------------------
(* Bounds of the model.                                                    *)

\* Significant bits of a float of the model.
MantissaBits == 8

\* Longest segment list transcribe returns.
MaxSegments == 3

\* Largest wall-clock processing time, in seconds.
MaxElapsed == 1

---------------------------------------------------------------------------
(* Python floats.                                                          *)

\* A float x is the integer x * Unit.
Unit == 2^12

Abs(x) == IF x < 0 THEN -x ELSE x

\* The spacing of the representable values around a magnitude of q units.
RECURSIVE Spacing(_, _)
Spacing(q, g) == IF q \div g < 2^MantissaBits THEN g ELSE Spacing(q, 2 * g)

\* The float nearest to num / den units (den > 0), ties to even.
RoundRatio(num, den) ==
    LET a == Abs(num)
        g == Spacing(a \div den, 1)
        d == den * g
        m == a \div d
        r == a % d
        up == (2 * r > d) \/ (2 * r = d /\ m % 2 = 1)
        mag == (IF up THEN m + 1 ELSE m) * g
    IN  IF num < 0 THEN -mag ELSE mag

\* The float a decimal literal num/den of the source denotes.
FloatLiteral(num, den) == RoundRatio(num * Unit, den)

\* x + y and x / n on floats.
FloatAdd(x, y) == RoundRatio(x + y, 1)
FloatDiv(x, n) == RoundRatio(x, n)

---------------------------------------------------------------------------
(* Python strings.                                                         *)

UPPERCASE ==
    <<"A", "B", "C", "D", "E", "F", "G", "H", "I", "J", "K", "L", "M", "N",
      "O", "P", "Q", "R", "S", "T", "U", "V", "W", "X", "Y", "Z">>

LOWERCASE ==
    <<"a", "b", "c", "d", "e", "f", "g", "h", "i", "j", "k", "l", "m", "n",
      "o", "p", "q", "r", "s", "t", "u", "v", "w", "x", "y", "z">>

DIGITS ==
    <<"0", "1", "2", "3", "4", "5", "6", "7", "8", "9">>


\* The characters str.strip() and float() remove (the ASCII ones).
WHITESPACE == {" ", "\t", "\n", "\r", "\f"}

\* s.strip()
RECURSIVE LStrip(_)
LStrip(s) == IF s # <<>> /\ Head(s) \in WHITESPACE THEN LStrip(Tail(s)) ELSE s

RECURSIVE RStrip(_)
RStrip(s) ==
    IF s # <<>> /\ s[Len(s)] \in WHITESPACE
    THEN RStrip(SubSeq(s, 1, Len(s) - 1))
    ELSE s

Strip(s) == RStrip(LStrip(s))

\* s.lower()
LowerChar(c) ==
    IF \E i \in 1..Len(UPPERCASE) : UPPERCASE[i] = c
    THEN LOWERCASE[CHOOSE i \in 1..Len(UPPERCASE) : UPPERCASE[i] = c]
    ELSE c

Lower(s) == [i \in 1..Len(s) |-> LowerChar(s[i])]

\* needle in hay
Contains(needle, hay) ==
    \E i \in 0..(Len(hay) - Len(needle)) :
        SubSeq(hay, i + 1, i + Len(needle)) = needle

\* float(s) of a string: optional whitespace, an optional sign, digits with an
\* optional point; any other string raises ValueError (ok = FALSE).
\* Exponents, underscores, inf and nan are not among the inputs.
IsDigit(c) == \E i \in 1..Len(DIGITS) : DIGITS[i] = c

DigitValue(c) == (CHOOSE i \in 1..Len(DIGITS) : DIGITS[i] = c) - 1

RECURSIVE DigitsValue(_)
DigitsValue(s) ==
    IF s = <<>>
    THEN 0
    ELSE 10 * DigitsValue(SubSeq(s, 1, Len(s) - 1)) + DigitValue(s[Len(s)])

ParseFloat(s) ==
    LET t == Strip(s)
        signed == t # <<>> /\ t[1] \in {"+", "-"}
        negative == t # <<>> /\ t[1] = "-"
        body == IF signed THEN Tail(t) ELSE t
        points == {i \in 1..Len(body) : body[i] = "."}
        point == IF points = {} THEN Len(body) + 1 ELSE CHOOSE i \in points : TRUE
        whole == SubSeq(body, 1, point - 1)
        frac == SubSeq(body, point + 1, Len(body))
        digits == whole \o frac
        ok == /\ Cardinality(points) <= 1
              /\ digits # <<>>
              /\ \A i \in 1..Len(digits) : IsDigit(digits[i])
        mag == RoundRatio(DigitsValue(digits) * Unit, 10^Len(frac))
    IN  [ok |-> ok, v |-> IF ~ok THEN 0 ELSE IF negative THEN -mag ELSE mag]

NEEDLE_FFMPEG ==
    <<"f", "f", "m", "p", "e", "g">>

NEEDLE_WINERROR ==
    <<"w", "i", "n", "e", "r", "r", "o", "r", " ", "2">>

NEEDLE_NOFILE ==
    <<"s", "y", "s", "t", "e", "m", " ", "c", "a", "n", "n", "o", "t", " ",
      "f", "i", "n", "d", " ", "t", "h", "e", " ", "f", "i", "l", "e", " ",
      "s", "p", "e", "c", "i", "f", "i", "e", "d">>

---------------------------------------------------------------------------
(* Constants of the program.                                               *)

MAX_DURATION_SECONDS == 60 * 60

ALLOWED_MODELS == {"tiny", "base"}

\* whisper.audio.SAMPLE_RATE, 16000 samples per second in the library.
SAMPLE_RATE == 16000

\* emit's default exit_code; no call of emit passes another.
DEFAULT_EXIT_CODE == 0

---------------------------------------------------------------------------
(* Values of a segment's fields: a missing key, None, a float, a string.   *)

Absent == [kind |-> "absent", v |-> 0, s |-> <<>>]
PyNone == [kind |-> "none", v |-> 0, s |-> <<>>]
PyFloat(x) == [kind |-> "float", v |-> x, s |-> <<>>]
PyStr(s) == [kind |-> "str", v |-> 0, s |-> s]

\* s.get(key): None for a missing key.
Get(segment, key) ==
    IF segment[key].kind = "absent" THEN PyNone ELSE segment[key]

\* The mutant of safe_float: the fallback argument is dropped, 0.0 is returned.
safe_float_default_only(value, fallback) ==
    CASE value.kind = "float" -> value.v
      [] value.kind = "str" ->
            IF ParseFloat(value.s).ok THEN ParseFloat(value.s).v ELSE 0
      [] OTHER -> 0

\* safe_float: float(value), or the fallback when float(value) raises
\* (TypeError for None, ValueError for a string that is no number).
safe_float(value, fallback) ==
    CASE value.kind = "float" -> value.v
      [] value.kind = "str" ->
            IF ParseFloat(value.s).ok THEN ParseFloat(value.s).v ELSE fallback
      [] OTHER -> fallback

\* sum(...) of floats: 0 + x1 + x2 + ..., left to right, each + rounded
\* (CPython up to 3.11; from 3.12 on sum compensates the rounding of the
\* additions, and the division by total still rounds).
RECURSIVE Sum(_)
Sum(xs) ==
    IF xs = <<>>
    THEN 0
    ELSE FloatAdd(Sum(SubSeq(xs, 1, Len(xs) - 1)), xs[Len(xs)])

\* The mutant of EmptyQualityMetrics: an empty list as neutral metrics.
EmptyQualityMetricsNeutral ==
    [avg_no_speech_prob |-> FloatLiteral(0, 1),
     avg_logprob |-> FloatLiteral(0, 1),
     avg_compression_ratio |-> FloatLiteral(0, 1)]

\* build_quality_metrics of no segments.
EmptyQualityMetrics ==
    [avg_no_speech_prob |-> FloatLiteral(1, 1),
     avg_logprob |-> FloatLiteral(-10, 1),
     avg_compression_ratio |-> FloatLiteral(10, 1)]

\* The per-segment values of one field after safe_float.
FieldValues(segments, key, fallback) ==
    [i \in 1..Len(segments) |-> safe_float(Get(segments[i], key), fallback)]

build_quality_metrics(segments) ==
    IF segments = <<>>
    THEN EmptyQualityMetrics
    ELSE LET total == Len(segments)
         IN  [avg_no_speech_prob |->
                  FloatDiv(Sum(FieldValues(segments, "no_speech_prob",
                                           FloatLiteral(0, 1))), total),
              avg_logprob |->
                  FloatDiv(Sum(FieldValues(segments, "avg_logprob",
                                           FloatLiteral(-1, 1))), total),
              avg_compression_ratio |->
                  FloatDiv(Sum(FieldValues(segments, "compression_ratio",
                                           FloatLiteral(1, 1))), total)]

---------------------------------------------------------------------------
(* The quality gate and the classification of a caught exception.          *)

\* The mutant of IsUnclearAudio: <= 8 for < 8.
IsUnclearAudioOffByOne(raw_text, quality) ==
    \/ Len(raw_text) <= 8
    \/ quality.avg_no_speech_prob >= FloatLiteral(78, 100)

\* len(raw_text) < 8 or quality["avg_no_speech_prob"] >= 0.78
IsUnclearAudio(raw_text, quality) ==
    \/ Len(raw_text) < 8
    \/ quality.avg_no_speech_prob >= FloatLiteral(78, 100)

\* The mutant of IsBackgroundNoise: >= 2.4 for > 2.4.
IsBackgroundNoiseNotStrict(quality) ==
    /\ quality.avg_compression_ratio >= FloatLiteral(24, 10)
    /\ quality.avg_logprob < FloatLiteral(-9, 10)
    /\ quality.avg_no_speech_prob > FloatLiteral(45, 100)

IsBackgroundNoise(quality) ==
    /\ quality.avg_compression_ratio > FloatLiteral(24, 10)
    /\ quality.avg_logprob < FloatLiteral(-9, 10)
    /\ quality.avg_no_speech_prob > FloatLiteral(45, 100)

\* The mutant of TooLong: >= for >.
TooLongNotStrict(sample_count) ==
    sample_count >= MAX_DURATION_SECONDS * SAMPLE_RATE

\* duration_seconds > MAX_DURATION_SECONDS, duration_seconds being
\* len(audio) / SAMPLE_RATE.
TooLong(sample_count) ==
    sample_count > MAX_DURATION_SECONDS * SAMPLE_RATE

\* len(audio) / whisper.audio.SAMPLE_RATE
DurationSeconds(sample_count) == [num |-> sample_count, den |-> SAMPLE_RATE]

\* The mutant of LoweredMessage: the message as it is, its case kept.
LoweredMessageCaseKept(message) == message

\* lowered = message.lower()
LoweredMessage(message) == Lower(message)

IsDependencyMessage(message) ==
    LET lowered == LoweredMessage(message)
    IN  \/ Contains(NEEDLE_FFMPEG, lowered)
        \/ Contains(NEEDLE_WINERROR, lowered)
        \/ Contains(NEEDLE_NOFILE, lowered)

\* The mutant of ExceptCatches: a bare except, which catches SystemExit too.
ExceptCatchesAll(kind) == TRUE

\* `except Exception` catches an Exception and lets SystemExit pass.
ExceptCatches(kind) == kind = "Exception"

\* The mutant of IsFile: the check passes for every path.
IsFileAlways == TRUE

\* os.path.isfile(input_path)
IsFile == file_exists

MsgFfmpegMixedCase ==
    <<"F", "F", "m", "p", "e", "g", " ", "w", "a", "s", " ", "n", "o", "t",
      " ", "f", "o", "u", "n", "d">>

MsgWinError ==
    <<"[", "W", "i", "n", "E", "r", "r", "o", "r", " ", "2", "]", " ", "T",
      "h", "e", " ", "s", "y", "s", "t", "e", "m", " ", "c", "a", "n", "n",
      "o", "t", " ", "f", "i", "n", "d", " ", "t", "h", "e", " ", "f", "i",
      "l", "e", " ", "s", "p", "e", "c", "i", "f", "i", "e", "d">>

MsgNoFileOnly ==
    <<"T", "h", "e", " ", "S", "y", "s", "t", "e", "m", " ", "c", "a", "n",
      "n", "o", "t", " ", "f", "i", "n", "d", " ", "t", "h", "e", " ", "f",
      "i", "l", "e", " ", "s", "p", "e", "c", "i", "f", "i", "e", "d", ".">>

MsgWinErrorOnly ==
    <<"W", "I", "N", "E", "R", "R", "O", "R", " ", "2">>

MsgCuda ==
    <<"C", "U", "D", "A", " ", "o", "u", "t", " ", "o", "f", " ", "m", "e",
      "m", "o", "r", "y">>

MsgNearMiss ==
    <<"f", "f", "m", "p", "e", " ", "g", ",", " ", "W", "i", "n", "E", "r",
      "r", "o", "r", " ", "3">>

MsgEmpty ==
    <<>>

TextSeven ==
    <<"a", "b", "c", "d", "e", "f", "g">>

TextSevenPadded ==
    <<" ", " ", "a", "b", "c", "d", "e", "f", "g", "\n">>

TextEight ==
    <<"a", "b", "c", "d", "e", "f", "g", "h">>

TextEightPadded ==
    <<"\t", "a", "b", "c", "d", "e", "f", "g", "h", " ">>

TextLong ==
    <<"w", "e", " ", "a", "g", "r", "e", "e", "d", " ", "t", "o", " ", "s",
      "h", "i", "p", " ", "i", "t">>

StrNotANumber ==
    <<"n", "/", "a">>

StrHalf ==
    <<"0", ".", "5">>

---------------------------------------------------------------------------
(* The inputs of a run.                                                    *)

\* str(exc) of the exceptions a collaborator raises.
Messages ==
    {MsgFfmpegMixedCase, MsgWinError, MsgNoFileOnly, MsgWinErrorOnly,
     MsgCuda, MsgNearMiss, MsgEmpty}

\* len(audio): half a minute, exactly one hour, one sample more, and
\* scenario B's 4000 seconds.
AudioLengths ==
    {30 * SAMPLE_RATE,
     MAX_DURATION_SECONDS * SAMPLE_RATE,
     MAX_DURATION_SECONDS * SAMPLE_RATE + 1,
     4000 * SAMPLE_RATE}

\* result["text"]: None or a string.
Texts ==
    {PyNone} \cup
    {PyStr(t) : t \in {TextSeven, TextSevenPadded, TextEight,
                       TextEightPadded, TextLong}}

Segment(no_speech_prob, avg_logprob, compression_ratio) ==
    [no_speech_prob |-> no_speech_prob,
     avg_logprob |-> avg_logprob,
     compression_ratio |-> compression_ratio]

F(num, den) == PyFloat(FloatLiteral(num, den))

\* Segments: scenario E of the specification, one segment at each threshold
\* of the gate (0.78 and 0.77 with the three noise conditions holding, then
\* each noise condition at its threshold in turn), a segment with every key
\* missing and one with a numeric string, None and a string that is no number.
SegmentPool ==
    {Segment(F(10, 100), F(-2, 10), F(15, 10)),
     Segment(F(78, 100), F(-10, 10), F(30, 10)),
     Segment(F(77, 100), F(-10, 10), F(30, 10)),
     Segment(F(45, 100), F(-10, 10), F(30, 10)),
     Segment(F(50, 100), F(-9, 10), F(30, 10)),
     Segment(F(50, 100), F(-10, 10), F(24, 10)),
     Segment(Absent, Absent, Absent),
     Segment(PyStr(StrHalf), PyNone, PyStr(StrNotANumber))}

\* result["segments"]: None or a list of segments.
NoSegments == [kind |-> "none", items |-> <<>>]
PyList(items) == [kind |-> "list", items |-> items]

SegmentLists ==
    {NoSegments} \cup
    {PyList(items) :
        items \in UNION {[1..k -> SegmentPool] : k \in 0..MaxSegments}}

\* What model.transcribe returns.
Results == [text : Texts, segments : SegmentLists]

---------------------------------------------------------------------------
(* emit and the verdicts.                                                  *)

\* str(SystemExit(code))
ExitText(code) == <<DIGITS[code + 1]>>

\* emit(payload, exit_code): one line on stdout, then sys.exit(exit_code),
\* which raises SystemExit.  Inside the try block the exception passes the
\* `except Exception` clause unless that clause catches it.
emit(payload, exit_code, in_try) ==
    /\ out' = Append(out, payload)
    /\ IF in_try /\ ExceptCatches("SystemExit")
       THEN /\ pc' = "except"
            /\ exc' = <<ExitText(exit_code)>>
            /\ exit_status' = exit_status
       ELSE /\ pc' = "exited"
            /\ exc' = exc
            /\ exit_status' = <<exit_code>>

\* An Exception raised by a statement of the try block.
RaiseInTry(message) ==
    /\ out' = out
    /\ IF ExceptCatches("Exception")
       THEN /\ pc' = "except"
            /\ exc' = <<message>>
            /\ exit_status' = exit_status
       ELSE /\ pc' = "exited"
            /\ exc' = exc
            /\ exit_status' = <<1>>

MissingFile ==
    [ok |-> FALSE, error_code |-> "missing_file",
     message |-> "Audio file not found."]

DependencyMissingImport(details) ==
    [ok |-> FALSE, error_code |-> "dependency_missing",
     message |-> "Whisper dependencies are not installed. Install python requirements and ffmpeg first.",
     details |-> details]

TooLongVerdict(duration_seconds) ==
    [ok |-> FALSE, error_code |-> "too_long",
     message |-> "Please split into 1 hour parts",
     duration_seconds |-> duration_seconds]

UnclearAudio(quality) ==
    [ok |-> FALSE, error_code |-> "unclear_audio",
     message |-> "Couldn't hear clearly", quality |-> quality]

BackgroundNoise(quality) ==
    [ok |-> FALSE, error_code |-> "background_noise",
     message |-> "Try quieter place", quality |-> quality]

Success(duration_seconds, processing_seconds, segments, raw_text, quality) ==
    [ok |-> TRUE, meeting_id |-> "meeting-1", model |-> args_model,
     duration_seconds |-> duration_seconds,
     processing_seconds |-> processing_seconds,
     segment_count |-> Len(segments),
     transcript_text |-> raw_text, quality |-> quality]

DependencyMissingFfmpeg(details) ==
    [ok |-> FALSE, error_code |-> "dependency_missing",
     message |-> "Whisper requires ffmpeg installed on the server.",
     details |-> details]

TranscriptionFailed(details) ==
    [ok |-> FALSE, error_code |-> "transcription_failed",
     message |-> "Transcription failed unexpectedly.",
     details |-> details]

---------------------------------------------------------------------------
(* main()                                                                  *)

Init ==
    /\ pc = "check_file"
    /\ file_exists \in BOOLEAN
    /\ args_model \in ALLOWED_MODELS
    /\ out = <<>>
    /\ exit_status = <<>>
    /\ calls = <<>>
    /\ audio = <<>>
    /\ result = <<>>
    /\ exc = <<>>

\* if not os.path.isfile(input_path): emit(missing_file)
CheckFile ==
    /\ pc = "check_file"
    /\ IF ~IsFile
       THEN emit(MissingFile, DEFAULT_EXIT_CODE, FALSE)
       ELSE pc' = "import" /\ UNCHANGED <<out, exit_status, exc>>
    /\ UNCHANGED <<file_exists, args_model, calls, audio, result>>

\* try: import whisper / except Exception: emit(dependency_missing)
ImportWhisper ==
    /\ pc = "import"
    /\ calls' = Append(calls, "import")
    /\ \/ pc' = "load_audio" /\ UNCHANGED <<out, exit_status, exc>>
       \/ \E message \in Messages :
            emit(DependencyMissingImport(message), DEFAULT_EXIT_CODE, FALSE)
    /\ UNCHANGED <<file_exists, args_model, audio, result>>

\* audio = whisper.load_audio(input_path) and the duration guard
LoadAudio ==
    /\ pc = "load_audio"
    /\ calls' = Append(calls, "load_audio")
    /\ \/ \E message \in Messages :
            RaiseInTry(message) /\ audio' = audio
       \/ \E sample_count \in AudioLengths :
            /\ audio' = <<sample_count>>
            /\ IF TooLong(sample_count)
               THEN emit(TooLongVerdict(DurationSeconds(sample_count)),
                         DEFAULT_EXIT_CODE, TRUE)
               ELSE pc' = "load_model" /\ UNCHANGED <<out, exit_status, exc>>
    /\ UNCHANGED <<file_exists, args_model, result>>

\* model = whisper.load_model(args.model)
LoadModel ==
    /\ pc = "load_model"
    /\ calls' = Append(calls, "load_model")
    /\ \/ \E message \in Messages : RaiseInTry(message)
       \/ pc' = "transcribe" /\ UNCHANGED <<out, exit_status, exc>>
    /\ UNCHANGED <<file_exists, args_model, audio, result>>

\* result = model.transcribe(...), the quality gate and the success verdict
Transcribe ==
    /\ pc = "transcribe"
    /\ calls' = Append(calls, "transcribe")
    /\ \/ \E message \in Messages :
            RaiseInTry(message) /\ result' = result
       \/ \E r \in Results :
            LET raw_text == Strip(IF r.text.kind = "str" THEN r.text.s ELSE <<>>)
                segments == IF r.segments.kind = "list"
                            THEN r.segments.items ELSE <<>>
                quality == build_quality_metrics(segments)
            IN  /\ result' = <<r>>
                /\ IF IsUnclearAudio(raw_text, quality)
                   THEN emit(UnclearAudio(quality), DEFAULT_EXIT_CODE, TRUE)
                   ELSE IF IsBackgroundNoise(quality)
                   THEN emit(BackgroundNoise(quality), DEFAULT_EXIT_CODE, TRUE)
                   ELSE \E processing_seconds \in 0..MaxElapsed :
                            emit(Success(DurationSeconds(audio[1]),
                                         processing_seconds, segments,
                                         raw_text, quality),
                                 DEFAULT_EXIT_CODE, TRUE)
    /\ UNCHANGED <<file_exists, args_model, audio>>

\* except Exception as exc: dependency_missing or transcription_failed.
\* emit does not return, so the second emit runs only when the first did not.
HandleException ==
    /\ pc = "except"
    /\ LET message == exc[1]
       IN  IF IsDependencyMessage(message)
           THEN emit(DependencyMissingFfmpeg(message), DEFAULT_EXIT_CODE, FALSE)
           ELSE emit(TranscriptionFailed(message), DEFAULT_EXIT_CODE, FALSE)
    /\ UNCHANGED <<file_exists, args_model, calls, audio, result>>

Next ==
    \/ CheckFile
    \/ ImportWhisper
    \/ LoadAudio
    \/ LoadModel
    \/ Transcribe
    \/ HandleException

Spec == Init /\ [][Next]_vars

---------------------------------------------------------------------------
(* What a finished run shows.                                              *)

Exited == pc = "exited"

\* The verdict of a run that emitted one.
Verdict == out[1]

\* "success" or the error code of a payload.
CodeOf(payload) == IF payload.ok THEN "success" ELSE payload.error_code

ErrorCodes ==
    {"missing_file", "dependency_missing", "too_long", "unclear_audio",
     "background_noise", "transcription_failed"}

\* transcribe returned, so the quality gate was reached.
GateReached == result # <<>>

Called(name) == \E i \in 1..Len(calls) : calls[i] = name

\* The length of result["text"] after trimming, counted by hand.
TrimmedLength(text) ==
    CASE text = PyNone -> 0
      [] text = PyStr(TextSeven) -> 7
      [] text = PyStr(TextSevenPadded) -> 7
      [] text = PyStr(TextEight) -> 8
      [] text = PyStr(TextEightPadded) -> 8
      [] text = PyStr(TextLong) -> 20

\* The segment list transcribe returned (empty when absent).
ReturnedSegments ==
    IF result[1].segments.kind = "list" THEN result[1].segments.items ELSE <<>>

\* The messages that name the missing audio-decoding tool, picked by hand.
DependencyMessages ==
    {MsgFfmpegMixedCase, MsgWinError, MsgNoFileOnly, MsgWinErrorOnly}

---------------------------------------------------------------------------
(* C1.  Every run emits exactly one verdict: nothing is on stdout while    *)
(* the run can still take a step, a run that cannot take a step has        *)
(* exited, and an exited run has written one object, Success or a Failure  *)
(* with one of the six error codes.  A verdict emitted in the try block is *)
(* not followed by one from the exception handler.                         *)
C1_ExactlyOneVerdict ==
    /\ Len(out) <= 1
    /\ ~Exited => Len(out) = 0 /\ ENABLED Next
    /\ Exited => /\ Len(out) = 1
                 /\ Verdict.ok \/ Verdict.error_code \in ErrorCodes

\* A run whose verdict was emitted inside the try block, after transcribe.
C1_Witness ==
    /\ Exited
    /\ GateReached
    /\ Len(out) = 1
    /\ CodeOf(Verdict) \in {"success", "unclear_audio", "background_noise"}

(* C2.  The exit code is 0 when the verdict is Success and non-zero when   *)
(* it is a Failure.                                                        *)
C2_ExitCodeTellsFailure ==
    (Exited /\ Len(out) = 1) =>
        IF Verdict.ok THEN exit_status = <<0>> ELSE exit_status # <<0>>

(* C3.  When the gate is reached the verdict is unclear_audio exactly when *)
(* the trimmed text has fewer than 8 characters or avg_no_speech_prob is   *)
(* at least 0.78, whatever the two other metrics are.                      *)
C3_UnclearAudioRule ==
    (Exited /\ GateReached) =>
        /\ Len(out) = 1
        /\ CodeOf(Verdict) = "unclear_audio" <=>
              \/ TrimmedLength(result[1].text) < 8
              \/ Verdict.quality.avg_no_speech_prob >= FloatLiteral(78, 100)

\* Rule 1 fires on avg_no_speech_prob = 0.78 alone, the text being 8
\* characters long and the three conditions of rule 2 holding as well.
C3_Witness ==
    /\ Exited
    /\ GateReached
    /\ TrimmedLength(result[1].text) = 8
    /\ CodeOf(Verdict) = "unclear_audio"
    /\ Verdict.quality.avg_no_speech_prob = FloatLiteral(78, 100)
    /\ Verdict.quality.avg_compression_ratio > FloatLiteral(24, 10)
    /\ Verdict.quality.avg_logprob < FloatLiteral(-9, 10)

(* C4.  When the gate is reached and rule 1 does not fire, the verdict is  *)
(* background_noise when avg_compression_ratio > 2.4, avg_logprob < -0.9   *)
(* and avg_no_speech_prob > 0.45 all hold, and Success otherwise.          *)
C4_BackgroundNoiseRule ==
    (/\ Exited
     /\ GateReached
     /\ TrimmedLength(result[1].text) >= 8
     /\ Verdict.quality.avg_no_speech_prob < FloatLiteral(78, 100)) =>
        IF /\ Verdict.quality.avg_compression_ratio > FloatLiteral(24, 10)
           /\ Verdict.quality.avg_logprob < FloatLiteral(-9, 10)
           /\ Verdict.quality.avg_no_speech_prob > FloatLiteral(45, 100)
        THEN CodeOf(Verdict) = "background_noise"
        ELSE CodeOf(Verdict) = "success"

\* Success with avg_compression_ratio exactly 2.4, the two other conditions
\* of rule 2 holding.
C4_Witness ==
    /\ Exited
    /\ GateReached
    /\ CodeOf(Verdict) = "success"
    /\ Verdict.quality.avg_compression_ratio = FloatLiteral(24, 10)
    /\ Verdict.quality.avg_logprob < FloatLiteral(-9, 10)
    /\ Verdict.quality.avg_no_speech_prob > FloatLiteral(45, 100)

(* C5.  When the input path is no existing file, no external call is ever  *)
(* made (no import, no load_audio, no load_model, no transcribe) and the   *)
(* run ends with missing_file.                                             *)
C5_MissingFileFirst ==
    ~file_exists =>
        /\ calls = <<>>
        /\ pc \in {"check_file", "exited"}
        /\ Exited => out = <<MissingFile>>

C5_Witness ==
    /\ ~file_exists
    /\ Exited
    /\ CodeOf(Verdict) = "missing_file"

(* C6.  Once load_audio has returned: more than 3600 * 16000 samples give  *)
(* too_long carrying the computed duration, with no load_model and no      *)
(* transcribe call; 3600 seconds or less are not rejected as too_long and  *)
(* the run goes on to load the model.                                      *)
C6_DurationGuard ==
    audio # <<>> =>
        IF audio[1] > 57600000
        THEN /\ Exited
             /\ out = <<TooLongVerdict([num |-> audio[1], den |-> 16000])>>
             /\ ~Called("load_model")
             /\ ~Called("transcribe")
        ELSE /\ pc = "load_model" \/ Called("load_model")
             /\ \A i \in 1..Len(out) : CodeOf(out[i]) # "too_long"

\* Scenario B: 4000 seconds.
C6_Witness ==
    /\ Exited
    /\ audio = <<64000000>>
    /\ CodeOf(Verdict) = "too_long"
    /\ Verdict.duration_seconds = [num |-> 64000000, den |-> 16000]

(* C7.  An Exception raised in the try block is caught and the run ends    *)
(* with dependency_missing when its message, lower-cased, contains         *)
(* "ffmpeg", "winerror 2" or "system cannot find the file specified", and  *)
(* with transcription_failed otherwise; details is the original message    *)
(* and message is the fixed string of the code.                            *)
C7_ExceptionClassification ==
    exc # <<>> =>
        /\ pc \in {"except", "exited"}
        /\ pc = "except" => out = <<>>
        /\ Exited =>
              /\ Len(out) = 1
              /\ Verdict.details = exc[1]
              /\ IF exc[1] \in DependencyMessages
                 THEN /\ CodeOf(Verdict) = "dependency_missing"
                      /\ Verdict.message =
                            "Whisper requires ffmpeg installed on the server."
                 ELSE /\ CodeOf(Verdict) = "transcription_failed"
                      /\ Verdict.message = "Transcription failed unexpectedly."

\* "FFmpeg was not found", raised by transcribe, ends as dependency_missing.
C7_Witness ==
    /\ Exited
    /\ exc = <<MsgFfmpegMixedCase>>
    /\ Called("transcribe")
    /\ CodeOf(Verdict) = "dependency_missing"

(* C8.  When transcribe returns no segments (an empty or absent list) the  *)
(* verdict is unclear_audio with the quality (1.0, -10.0, 10.0), whatever  *)
(* the text.                                                               *)
C8_NoSegmentsUnclear ==
    (Exited /\ GateReached /\ ReturnedSegments = <<>>) =>
        out = <<UnclearAudio([avg_no_speech_prob |-> 1 * Unit,
                              avg_logprob |-> -10 * Unit,
                              avg_compression_ratio |-> 10 * Unit])>>

\* No segment key at all and a text of 20 characters.
C8_Witness ==
    /\ Exited
    /\ GateReached
    /\ result[1].segments = NoSegments
    /\ TrimmedLength(result[1].text) = 20
    /\ CodeOf(Verdict) = "unclear_audio"

\* metric is between the least and the greatest of values.
WithinHull(metric, values) ==
    /\ \E i \in 1..Len(values) : values[i] <= metric
    /\ \E i \in 1..Len(values) : metric <= values[i]

(* C9.  Each metric lies between the least and the greatest of the         *)
(* per-segment values after fallback substitution; for no segments the     *)
(* metrics are (1.0, -10.0, 10.0).                                         *)
C9_MetricsWithinHull ==
    (Exited /\ GateReached) =>
        IF ReturnedSegments = <<>>
        THEN Verdict.quality = EmptyQualityMetrics
        ELSE /\ WithinHull(Verdict.quality.avg_no_speech_prob,
                           FieldValues(ReturnedSegments, "no_speech_prob",
                                       FloatLiteral(0, 1)))
             /\ WithinHull(Verdict.quality.avg_logprob,
                           FieldValues(ReturnedSegments, "avg_logprob",
                                       FloatLiteral(-1, 1)))
             /\ WithinHull(Verdict.quality.avg_compression_ratio,
                           FieldValues(ReturnedSegments, "compression_ratio",
                                       FloatLiteral(1, 1)))

\* A field value float() cannot turn into a number, picked by hand.
IsUnusable(value) ==
    \/ value.kind \in {"absent", "none"}
    \/ value.kind = "str" /\ value.s = StrNotANumber

\* The segment with the fallback written in for every such field.
Substituted(segment) ==
    [no_speech_prob |->
        IF IsUnusable(segment.no_speech_prob)
        THEN PyFloat(0) ELSE segment.no_speech_prob,
     avg_logprob |->
        IF IsUnusable(segment.avg_logprob)
        THEN PyFloat(-1 * Unit) ELSE segment.avg_logprob,
     compression_ratio |->
        IF IsUnusable(segment.compression_ratio)
        THEN PyFloat(1 * Unit) ELSE segment.compression_ratio]

(* C10.  A field that is missing or no number counts as its fallback (0.0, *)
(* -1.0, 1.0) and its segment still counts in the divisor: the metrics are *)
(* those of the list with every such field replaced by the fallback as a   *)
(* float.  Such a field never makes the run fail: the verdict is one of    *)
(* the gate's, never transcription_failed.                                 *)
C10_FallbackSubstitution ==
    (Exited /\ GateReached) =>
        /\ exc = <<>>
        /\ CodeOf(Verdict) \in {"unclear_audio", "background_noise", "success"}
        /\ Verdict.quality =
              build_quality_metrics(
                  [i \in 1..Len(ReturnedSegments) |->
                      Substituted(ReturnedSegments[i])])

\* Two or more segments, one of them with an unusable field, accepted.
C10_Witness ==
    /\ Exited
    /\ GateReached
    /\ Len(ReturnedSegments) >= 2
    /\ \E i \in 1..Len(ReturnedSegments) :
          IsUnusable(ReturnedSegments[i].avg_logprob)
    /\ CodeOf(Verdict) = "success"

=============================================================================
